---- MODULE Spec2Model ----
(***************************************************************************)
(* Controllers of the TranscriptionIndicator executable.                   *)
(*                                                                         *)
(* The scripts of the repository launch the indicator executable as a      *)
(* child process, write newline-terminated commands to its stdin and read  *)
(* one-line replies from its stdout.  The model holds one controller       *)
(* script per behaviour (IndicatorDemo of Scripts/demo.py, main of         *)
(* Scripts/demo.py with its four demo modes under MainSpec,                *)
(* TranscriptionIndicator of Scripts/integration_example.py, main of       *)
(* Scripts/quick_test.py, the functions of Scripts/simple_integration.py,  *)
(* test_single_instance.py) together with the child process it owns.  The  *)
(* executable is a black box: it may answer a command, stay silent, or     *)
(* exit at any moment; it exits at once when another live instance holds   *)
(* the single-instance lock.                                               *)
(*                                                                         *)
(* Time is abstracted to events: a bounded wait (wait(timeout=...),        *)
(* asyncio.wait_for) times out only in a state where the awaited event     *)
(* cannot happen at once.                                                  *)
(***************************************************************************)
EXTENDS Integers, Sequences, FiniteSets, TLC

\* ------------------------------------------------------------------ bounds
MaxCmds == 3      \* send_command calls per behaviour
MaxStarts == 2    \* start calls per behaviour
MaxStops == 2     \* stop calls per behaviour
MaxPipe == 1      \* unread lines the stdout pipe holds before the child blocks
MaxList == 1      \* the leading elements of each list a demo of demo.py loops over
MaxStale == 1     \* reader threads of timed-out calls alive at once in a run of
                  \* main of demo.py

\* ------------------------------------------------------------------ text
NL == "\n"
SP == " "
Whitespace == {SP, NL}

\* "OK:" (demo.py:144)
OKPrefix == <<"O", "K", ":">>

\* Lines the executable may write to stdout, each ended by its newline.
ReplyLines ==
    { <<"O", "K", ":", NL>>,
      <<"E", "R", "R", "O", "R", ":", NL>>,
      <<NL>>,
      <<"O", "K", NL>>,
      <<SP, "O", "K", ":", NL>> }

\* readline() at end-of-file returns the empty string
EOFLine == <<>>

\* Commands written by the scripts (their text is not inspected by the
\* controller): hide, one of the shows of demo_animation_system and one of the
\* invalid commands of demo_error_handling.
Commands == {"hide", "show circle 30", "show circle 500"}

\* The command grammar of the executable: show with a shape and a size in
\* range, hide, health.
ValidCommands ==
    {"health", "hide", "show circle 30", "show circle", "show ring",
     "show orb", "show circle 20", "show circle 35", "show circle 50",
     "show circle 75", "show circle 100", "show ring 50", "show orb 50",
     "show circle 60", "show center 60", "show circle 40", "show circle 80",
     "show ring 80", "show orb 120", "show orb 70", "show circle 90"}

\* a line written without its newline
CommandLineUnterminated(command) == << command >>

\* f"{command}\n": the command text followed by one newline
CommandLine(command) == << command, NL >>

\* The line the grammar of the executable prescribes as the answer to a
\* command line: OK: for a command of the grammar, ERROR: for any other text.
Grammar(line) ==
    IF Len(line) = 2 /\ line[2] = NL /\ line[1] \in ValidCommands
    THEN << "O", "K", ":", NL >>
    ELSE << "E", "R", "R", "O", "R", ":", NL >>

RECURSIVE LStrip(_)
LStrip(s) ==
    IF s # <<>> /\ Head(s) \in Whitespace THEN LStrip(Tail(s)) ELSE s

RECURSIVE RStrip(_)
RStrip(s) ==
    IF s # <<>> /\ s[Len(s)] \in Whitespace
    THEN RStrip(SubSeq(s, 1, Len(s) - 1))
    ELSE s

\* str.strip()
Strip(s) == LStrip(RStrip(s))

\* str.startswith(p)
StartsWith(s, p) == Len(s) >= Len(p) /\ SubSeq(s, 1, Len(p)) = p

\* read_line() of send_command: line.strip() if line else "" (demo.py:130-136)
ReadLineValue(line) == IF line # <<>> THEN Strip(line) ELSE <<>>

\* a classification by truthiness instead of by prefix
SuccessAnyText(response) == response # <<>>

\* success = response.startswith("OK:") (demo.py:144)
Success(response) == StartsWith(response, OKPrefix)

\* ------------------------------------------------------------------ state
VARIABLES
    script,      \* the script this behaviour runs: "demo", "ti", "quick", "simple"
                 \* or "tsi" (test_single_instance.py)
    exists,      \* executable_path.exists()
    pc,          \* the controller's position
    process,     \* self.process / app_process: "None" or "Popen"
    proc,        \* the child process of the handle: "none", "running", "exited"
    reaped,      \* the child's exit status was collected (poll()/wait() returned it)
    ctlStdin,    \* the controller's end of the child's stdin: "none", "open", "closed"
    stderrPiped, \* the child's stderr is captured by the controller (stderr=PIPE)
    errText,     \* the child wrote diagnostic text to its stderr before exiting
    sig,         \* signals delivered to the child and not yet acted on
    inq,         \* command lines in the child's stdin, not yet consumed by it
    pipe,        \* reply lines in the child's stdout, not yet read
    holder,      \* reader thread blocked in readline() holding the stream: its command, 0 if none
    waiters,     \* reader threads queued behind the holder
    ncmd,        \* send_command calls made so far
    cur,         \* the send_command call in progress (its index), 0 if none
    ret,         \* what the last send_command call returned
    written,     \* how many times the last send_command call wrote its line
    answered,    \* the child answered the last send_command call while the call
                 \* was waiting for the answer
    launched,    \* processes launched so far (Popen, subprocess.run)
    orphans,     \* launched processes left alive with no handle
    nstart,      \* start calls made so far
    startRet,    \* what the last start returned: "none", "True", "False"
    surfaced,    \* the last start printed the child's error text
    nstop,       \* stop calls made so far
    stopLog,     \* what the stop call in progress (or the last one) did, in order
    raised,      \* an exception escaped the last operation
    openAtSend,  \* the session was open when the last send_command was called
    command,     \* the argument of the last send_command call, "" if none
    conformed,   \* the child answered the last send_command call, while the call was
                 \* waiting, with the line its grammar prescribes
    prev,        \* the send_command call before the last, when the child conformed
                 \* to it: its argument and whether it returned its own reply as a
                 \* success
    otherAlive,  \* an instance launched by another session is alive and holds the
                 \* single-instance lock
    mainRet,     \* what main of quick_test.py returned, or the exit code of
                 \* main of demo.py: "none", "0", "1"
    codes,       \* the return codes of the probes test_single_instance has run
    testRet,     \* what test_single_instance returned: "none", "True", "False"
    mode,        \* main of demo.py: args.mode, "none" in the other scripts
    ip,          \* main of demo.py: the instruction of the mode's program whose
                 \* send_command call was made last, 0 before the first
    modeRet,     \* main of demo.py: what run_*_demo returned: "none", "True",
                 \* "False", or "cancelled" when it was interrupted
    lastSH,      \* main of demo.py: the kind of the last show or hide line
                 \* written to the child by the mode: "none", "show", "hide"
    cmdFailed,   \* main of demo.py: a command after the health check whose
                 \* success the mode expected returned without success
    health,      \* main of demo.py: the health check: "none", "ok", "failed"
    interrupted  \* main of demo.py: the user interrupted the run

vars == << script, exists, pc, process, proc, reaped, ctlStdin, stderrPiped, errText, sig, inq, pipe, holder, waiters, ncmd, cur,
           ret, written, answered, launched, orphans, nstart, startRet, surfaced,
           nstop, stopLog, raised, openAtSend, command, conformed, prev,
           otherAlive, mainRet, codes, testRet, mode, ip, modeRet, lastSH,
           cmdFailed, health, interrupted >>

procVars == << proc, reaped, ctlStdin, stderrPiped, errText, sig, inq >>
readVars == << pipe, holder, waiters >>
cmdVars == << ncmd, cur, ret, written >>
histVars == << answered, openAtSend, command, conformed, prev >>
startVars == << nstart, startRet, surfaced >>
stopVars == << nstop, stopLog >>
mainVars == << mode, ip, modeRet, lastSH, cmdFailed, health, interrupted >>
scriptVars == << script, exists, mainVars >>
\* what the two controller classes and the child leave alone
tsiVars == << codes, testRet >>
envVars == << scriptVars, mainRet, otherAlive, tsiVars >>

NoRet ==
    [id |-> 0, outcome |-> "none", line |-> <<>>, response |-> <<>>,
     success |-> FALSE, from |-> 0]

\* The records of what the last operation did are kept until the next
\* operation begins.
NoPrev == [command |-> "", ok |-> FALSE]

\* The call returned the reply to its own command, classified as a success
OwnOK(r) == r.outcome = "response" /\ r.success /\ r.from = r.id

ForgetSend ==
    /\ ret' = NoRet /\ written' = 0 /\ answered' = FALSE /\ openAtSend' = FALSE
    /\ command' = "" /\ conformed' = FALSE /\ prev' = NoPrev

\* A send_command call begins: the call before it becomes the previous one.
RecordSend(text) ==
    /\ command' = text
    /\ conformed' = FALSE
    /\ prev' = IF conformed
               THEN [command |-> command, ok |-> OwnOK(ret)]
               ELSE NoPrev
ForgetStop == stopLog' = <<>>

\* The scripts that drive an IndicatorDemo object: the calls of an arbitrary
\* caller ("demo") and main of demo.py ("main").
IsDemo == script \in {"demo", "main"}

\* ------------------------------------------------------------------ init
\* The state before the script runs, whichever script it is.
InitState ==
    /\ exists \in BOOLEAN
    /\ pc = "new"
    /\ process = "None"
    /\ proc = "none"
    /\ reaped = FALSE
    /\ ctlStdin = "none"
    /\ stderrPiped = FALSE
    /\ errText = FALSE
    /\ sig = {}
    /\ inq = <<>>
    /\ pipe = <<>>
    /\ holder = 0
    /\ waiters = {}
    /\ ncmd = 0
    /\ cur = 0
    /\ ret = NoRet
    /\ written = 0
    /\ answered = FALSE
    /\ launched = 0
    /\ orphans = 0
    /\ nstart = 0
    /\ startRet = "none"
    /\ surfaced = FALSE
    /\ nstop = 0
    /\ stopLog = <<>>
    /\ raised = FALSE
    /\ openAtSend = FALSE
    /\ command = ""
    /\ conformed = FALSE
    /\ prev = NoPrev
    /\ otherAlive \in BOOLEAN
    /\ mainRet = "none"
    /\ codes = <<>>
    /\ testRet = "none"
    /\ ip = 0
    /\ modeRet = "none"
    /\ lastSH = "none"
    /\ cmdFailed = FALSE
    /\ health = "none"
    /\ interrupted = FALSE

Init ==
    /\ script \in {"demo", "ti", "quick", "simple", "tsi"}
    /\ mode = "none"
    /\ InitState

\* ------------------------------------------------------- the child process
\* subprocess.Popen([executable], stdin=PIPE, stdout=PIPE, ...): a new child
\* with fresh pipes.  A child of an earlier Popen that is still running loses
\* its handle.  Reader threads of the old stdout stay blocked on the old pipe.
Spawn(capturesStderr) ==
    /\ proc' = "running"
    /\ reaped' = FALSE
    /\ ctlStdin' = "open"
    /\ stderrPiped' = capturesStderr
    /\ errText' = FALSE
    /\ sig' = {}
    /\ inq' = <<>>
    /\ pipe' = <<>>
    /\ holder' = 0
    /\ waiters' = {}
    /\ launched' = launched + 1
    /\ orphans' = IF proc = "running" THEN orphans + 1 ELSE orphans

\* A write to the child's stdin fails (BrokenPipeError, or ValueError on a
\* closed file) when the child has exited or the write end was closed.
WriteFails == ctlStdin # "open" \/ proc # "running"

\* An instance other than the child of the handle is alive and holds the
\* single-instance lock: the instance of another session, or one this
\* controller launched and left without a handle.
LockHeldElsewhere == otherAlive \/ orphans > 0

\* The child of the handle is alive while the lock is held elsewhere: it
\* exits at once, before it does anything else and before a grace period of
\* the controller ends.
Contended == LockHeldElsewhere /\ proc = "running"

\* The executable answers the oldest unanswered command line with one line.
ProcReply ==
    /\ proc = "running" /\ inq # <<>> /\ ~Contended
    /\ Len(pipe) < MaxPipe
    /\ \E l \in ReplyLines :
          /\ pipe' = Append(pipe, [for |-> Head(inq).id, text |-> l])
          /\ conformed' = (conformed \/ (/\ pc = "waiting" /\ Head(inq).id = cur
                                         /\ l = Grammar(Head(inq).text)))
    /\ inq' = Tail(inq)
    /\ answered' = (answered \/ (pc = "waiting" /\ Head(inq).id = cur))
    /\ UNCHANGED << envVars, pc, process, proc, reaped, ctlStdin, stderrPiped,
                    errText, sig, holder, waiters, cmdVars, openAtSend,
                    command, prev, launched, orphans, startVars, stopVars,
                    raised >>

\* The executable consumes a command line and never answers it.
ProcSkip ==
    /\ proc = "running" /\ inq # <<>> /\ ~Contended
    /\ inq' = Tail(inq)
    /\ UNCHANGED << envVars, pc, process, proc, reaped, ctlStdin, stderrPiped,
                    errText, sig, readVars, cmdVars, histVars, launched,
                    orphans, startVars, stopVars, raised >>

\* The executable exits: on its own (another instance holds the lock, a
\* crash), after end-of-file on stdin, or on a signal.  It may have written
\* diagnostic text to stderr.
ProcExit ==
    /\ proc = "running"
    /\ proc' = "exited"
    /\ inq' = <<>>
    /\ sig' = {}
    /\ errText' \in BOOLEAN
    /\ UNCHANGED << envVars, pc, process, reaped, ctlStdin, stderrPiped,
                    readVars, cmdVars, histVars, launched, orphans,
                    startVars, stopVars, raised >>

\* The instance of the other session exits and releases the lock.
OtherExit ==
    /\ otherAlive
    /\ otherAlive' = FALSE
    /\ UNCHANGED << scriptVars, tsiVars, mainRet, pc, process, procVars, readVars,
                    cmdVars, histVars, launched, orphans, startVars, stopVars,
                    raised >>

\* An instance left without a handle exits.
OrphanExit ==
    /\ orphans > 0
    /\ orphans' = orphans - 1
    /\ UNCHANGED << envVars, pc, process, procVars, readVars, cmdVars,
                    histVars, launched, startVars, stopVars, raised >>

\* Popen.send_signal: poll() first and do nothing for a child that has exited.
SendSignal(s) ==
    IF proc = "running"
    THEN /\ sig' = sig \cup {s}
         /\ reaped' = reaped
    ELSE /\ sig' = sig
         /\ reaped' = TRUE

\* ------------------------------------------- IndicatorDemo (Scripts/demo.py)
\* a constructor that does not validate the path
DemoNotFoundUnchecked == FALSE

\* if not self.executable_path.exists(): raise FileNotFoundError
DemoNotFound == ~exists

\* IndicatorDemo.__init__: self.process = None, then the executable must exist
\* or FileNotFoundError is raised.
DemoInit ==
    /\ script = "demo" /\ pc = "new"
    /\ process' = "None"
    /\ IF DemoNotFound
       THEN pc' = "ctorRaised" /\ raised' = TRUE
       ELSE pc' = "idle" /\ raised' = FALSE
    /\ UNCHANGED << envVars, procVars, readVars, cmdVars, histVars, launched,
                    orphans, startVars, stopVars >>

\* start_process, up to time.sleep(1.0): Popen with all three streams piped.
\* A failing Popen is caught and start_process returns False.
StartProcess ==
    /\ nstart' = nstart + 1
    /\ surfaced' = FALSE
    /\ raised' = FALSE
    /\ \E popenOK \in BOOLEAN :
          IF popenOK
          THEN /\ Spawn(TRUE)
               /\ process' = "Popen"
               /\ startRet' = "none"
               /\ pc' = "startSleep"
          ELSE /\ startRet' = "False"
               /\ pc' = "idle"
               /\ UNCHANGED << process, procVars, readVars, launched, orphans >>
    /\ ForgetSend /\ ForgetStop
    /\ UNCHANGED << ncmd, cur, nstop >>

\* a start_process call of the arbitrary caller
DemoStartSpawn ==
    /\ script = "demo" /\ pc = "idle" /\ nstart < MaxStarts
    /\ StartProcess
    /\ UNCHANGED envVars

\* a start_process that does not poll the child after the sleep
DemoStartedUnchecked == TRUE

\* if self.process.poll() is None: ... return True
DemoStarted == proc = "running"

\* start_process after the sleep: poll() is None means started; otherwise the
\* captured stderr is read and printed when it is not empty.
DemoStartCheck ==
    /\ IsDemo /\ pc = "startSleep" /\ ~Contended
    /\ IF DemoStarted
       THEN /\ startRet' = "True"
            /\ UNCHANGED << reaped, surfaced >>
       ELSE /\ startRet' = "False"
            /\ reaped' = TRUE
            /\ surfaced' = (stderrPiped /\ errText)
    /\ pc' = "idle"
    /\ UNCHANGED << envVars, process, proc, ctlStdin, stderrPiped,
                    errText, sig, inq, readVars, cmdVars, histVars, launched,
                    orphans, nstart, stopVars, raised >>

\* What send_command returns, for the call number c
\* ("Process not running", False)
NotRunningRet(c) ==
    [id |-> c, outcome |-> "NotRunning", line |-> <<>>, response |-> <<>>,
     success |-> FALSE, from |-> 0]
\* a handler that reports the caught exception as a success
FailedRetAsSuccess(c) ==
    [id |-> c, outcome |-> "failed", line |-> <<>>, response |-> <<>>,
     success |-> TRUE, from |-> 0]
\* (f"Command failed: {e}", False)
FailedRet(c) ==
    [id |-> c, outcome |-> "failed", line |-> <<>>, response |-> <<>>,
     success |-> FALSE, from |-> 0]
\* ("Command timed out - no response received", False)
TimeoutRet(c) ==
    [id |-> c, outcome |-> "timeout", line |-> <<>>, response |-> <<>>,
     success |-> FALSE, from |-> 0]
\* (response, success) of the line read; line is what readline() returned and
\* from is the command the line answers
ResponseRet(c, line) ==
    [id |-> c, outcome |-> "response",
     line |-> line.text,
     response |-> ReadLineValue(line.text),
     success |-> Success(ReadLineValue(line.text)),
     from |-> line.for]

\* if not self.process: return "Process not running", False
DemoNotRunning == process = "None"

\* The session is open: the last start reported success and no stop has
\* released the handle since.
SessionOpen == process = "Popen" /\ startRet = "True"

\* send_command, up to the await: the guard, the write and flush of the
\* command line, and the start of the reader thread (run_in_executor).  An
\* exception of the write is caught and reported as a failure.
SendCommand(text) ==
    /\ ncmd' = ncmd + 1
    /\ raised' = FALSE
    /\ RecordSend(text)
    /\ LET c == ncmd + 1 IN
       IF DemoNotRunning
       THEN /\ ret' = NotRunningRet(c)
            /\ written' = 0
            /\ UNCHANGED << pc, cur, inq, holder, waiters >>
       ELSE IF WriteFails
       THEN /\ ret' = FailedRet(c)
            /\ written' = 0
            /\ UNCHANGED << pc, cur, inq, holder, waiters >>
       ELSE /\ inq' = Append(inq, [id |-> c, text |-> CommandLine(text)])
            /\ written' = 1
            /\ IF holder = 0
               THEN holder' = c /\ waiters' = waiters
               ELSE holder' = holder /\ waiters' = waiters \cup {c}
            /\ cur' = c
            /\ pc' = "waiting"
            /\ ret' = NoRet
    /\ answered' = FALSE
    /\ openAtSend' = SessionOpen
    /\ ForgetStop
    /\ surfaced' = FALSE
    /\ UNCHANGED << process, proc, reaped, ctlStdin, stderrPiped, errText,
                    sig, pipe, launched, orphans, nstart, startRet, nstop >>

\* a send_command call of the arbitrary caller
DemoSend ==
    /\ script = "demo" /\ pc = "idle" /\ ncmd < MaxCmds
    /\ \E text \in Commands : SendCommand(text)
    /\ UNCHANGED envVars

\* A reader thread can complete its readline(): a line is in the pipe, or the
\* write end is gone (end-of-file).
CanRead == holder # 0 /\ (pipe # <<>> \/ proc = "exited")

\* The reader thread holding the stream returns from readline().  The thread
\* of the call in progress completes that call; a thread left behind by a
\* call that timed out throws its line away.  One of the threads queued
\* behind it takes the stream next.
ReaderReturns ==
    /\ IsDemo /\ CanRead
    /\ LET line == IF pipe # <<>> THEN Head(pipe)
                   ELSE [for |-> 0, text |-> EOFLine] IN
       IF holder = cur /\ pc = "waiting"
       THEN /\ ret' = ResponseRet(cur, line)
            /\ cur' = 0
            /\ pc' = "idle"
       ELSE UNCHANGED << ret, cur, pc >>
    /\ pipe' = IF pipe # <<>> THEN Tail(pipe) ELSE pipe
    /\ IF waiters = {}
       THEN holder' = 0 /\ waiters' = {}
       ELSE \E w \in waiters : holder' = w /\ waiters' = waiters \ {w}
    /\ UNCHANGED << envVars, process, procVars, ncmd, written, histVars,
                    launched, orphans, startVars, stopVars, raised >>

\* asyncio.wait_for(..., timeout=5.0) expires: the call returns the timeout
\* failure; its reader thread stays blocked in readline().
DemoSendTimeout ==
    /\ IsDemo /\ pc = "waiting" /\ ~CanRead
    \* bound: a run of main leaves at most MaxStale threads queued behind
    \* the one that holds the stream
    /\ script = "main" => Cardinality(waiters) < MaxStale
    /\ ret' = TimeoutRet(cur)
    /\ cur' = 0
    /\ pc' = "idle"
    /\ UNCHANGED << envVars, process, procVars, readVars, ncmd, written,
                    histVars, launched, orphans, startVars, stopVars, raised >>

\* a stop_process that keeps the handle
StopKeepsHandle == process' = process

\* finally: self.process = None
StopFinally == process' = "None"

\* stop_process up to wait(timeout=5.0): nothing without a handle; otherwise
\* write "hide", close stdin.  An exception of the write goes to the
\* except Exception branch: kill() and return.
StopProcess ==
    /\ nstop' = nstop + 1
    /\ raised' = FALSE
    /\ IF process = "None"
       THEN /\ stopLog' = << "no process" >>
            /\ UNCHANGED << pc, process, procVars >>
       ELSE IF WriteFails
       THEN /\ stopLog' = << "write failed", "kill" >>
            /\ SendSignal("KILL")
            /\ StopFinally
            /\ UNCHANGED << pc, proc, ctlStdin, stderrPiped,
                            errText, inq >>
       ELSE /\ stopLog' = << "write", "close", "wait5" >>
            /\ inq' = Append(inq, [id |-> 0, text |-> CommandLine("hide")])
            /\ ctlStdin' = "closed"
            /\ pc' = "stopWait5"
            /\ UNCHANGED << process, proc, reaped, stderrPiped,
                            errText, sig >>
    /\ ForgetSend
    /\ surfaced' = FALSE
    /\ UNCHANGED << readVars, ncmd, cur, launched, orphans, nstart, startRet >>

\* a stop_process call of the arbitrary caller
DemoStopBegin ==
    /\ script = "demo" /\ pc = "idle" /\ nstop < MaxStops
    /\ StopProcess
    /\ UNCHANGED envVars

\* wait(timeout=5.0) returns: the child exited.
DemoStopWaitDone ==
    /\ IsDemo /\ pc = "stopWait5" /\ proc = "exited"
    /\ reaped' = TRUE
    /\ stopLog' = Append(stopLog, "exited")
    /\ StopFinally
    /\ pc' = "idle"
    /\ UNCHANGED << envVars, proc, ctlStdin, stderrPiped, errText,
                    sig, inq, readVars, cmdVars, histVars, launched, orphans,
                    startVars, nstop, raised >>

\* wait(timeout=5.0) raises TimeoutExpired: terminate(), then wait(timeout=2.0).
DemoStopTerminate ==
    /\ IsDemo /\ pc = "stopWait5" /\ proc = "running"
    /\ stopLog' = stopLog \o << "timeout5", "terminate", "wait2" >>
    /\ SendSignal("TERM")
    /\ pc' = "stopWait2"
    /\ UNCHANGED << envVars, process, proc, ctlStdin, stderrPiped,
                    errText, inq, readVars, cmdVars, histVars, launched,
                    orphans, startVars, nstop, raised >>

\* wait(timeout=2.0) returns: the child exited.
DemoStopWait2Done ==
    /\ IsDemo /\ pc = "stopWait2" /\ proc = "exited"
    /\ reaped' = TRUE
    /\ stopLog' = Append(stopLog, "exited")
    /\ StopFinally
    /\ pc' = "idle"
    /\ UNCHANGED << envVars, proc, ctlStdin, stderrPiped, errText,
                    sig, inq, readVars, cmdVars, histVars, launched, orphans,
                    startVars, nstop, raised >>

\* wait(timeout=2.0) raises TimeoutExpired: kill(), and stop_process returns.
DemoStopKill ==
    /\ IsDemo /\ pc = "stopWait2" /\ proc = "running"
    /\ stopLog' = stopLog \o << "timeout2", "kill" >>
    /\ SendSignal("KILL")
    /\ StopFinally
    /\ pc' = "idle"
    /\ UNCHANGED << envVars, proc, ctlStdin, stderrPiped, errText,
                    inq, readVars, cmdVars, histVars, launched, orphans,
                    startVars, nstop, raised >>

DemoNext ==
    \/ DemoInit
    \/ DemoStartSpawn
    \/ DemoStartCheck
    \/ DemoSend
    \/ ReaderReturns
    \/ DemoSendTimeout
    \/ DemoStopBegin
    \/ DemoStopWaitDone
    \/ DemoStopTerminate
    \/ DemoStopWait2Done
    \/ DemoStopKill

\* ------------- TranscriptionIndicator (Scripts/integration_example.py)
\* TranscriptionIndicator.__init__: self.process = None; the path is not checked.
TIInit ==
    /\ script = "ti" /\ pc = "new"
    /\ process' = "None"
    /\ pc' = "idle"
    /\ UNCHANGED << envVars, procVars, readVars, cmdVars, histVars, launched,
                    orphans, startVars, stopVars, raised >>

\* if self.process and self.process.poll() is None: return True
TIAlreadyRunning == process = "Popen" /\ proc = "running"

\* if not self.executable_path.exists(): ... return False
TINotFound == ~exists

\* start, up to time.sleep(0.5): True at once when already running, False
\* when the executable does not exist, otherwise Popen with stdin and stdout
\* piped (stderr is inherited, not captured).  A failing Popen propagates.
TIStartSpawn ==
    /\ script = "ti" /\ pc = "idle" /\ nstart < MaxStarts
    /\ nstart' = nstart + 1
    /\ surfaced' = FALSE
    /\ IF TIAlreadyRunning
       THEN /\ startRet' = "True"
            /\ raised' = FALSE
            /\ UNCHANGED << pc, process, procVars, readVars, launched, orphans >>
       ELSE IF TINotFound
       THEN /\ startRet' = "False"
            /\ raised' = FALSE
            /\ reaped' = (reaped \/ process = "Popen")
            /\ UNCHANGED << pc, process, proc, ctlStdin, stderrPiped, errText, sig, inq, readVars,
                            launched, orphans >>
       ELSE \E popenOK \in BOOLEAN :
            IF popenOK
            THEN /\ Spawn(FALSE)
                 /\ process' = "Popen"
                 /\ startRet' = "none"
                 /\ raised' = FALSE
                 /\ pc' = "tiStartSleep"
            ELSE /\ startRet' = "none"
                 /\ raised' = TRUE
                 /\ reaped' = (reaped \/ process = "Popen")
                 /\ UNCHANGED << pc, process, proc, ctlStdin, stderrPiped, errText, sig, inq, readVars,
                                 launched, orphans >>
    /\ ForgetSend /\ ForgetStop
    /\ UNCHANGED << envVars, ncmd, cur, nstop >>

\* return self.process.poll() is None
TIStartCheck ==
    /\ script = "ti" /\ pc = "tiStartSleep" /\ ~Contended
    /\ startRet' = IF proc = "running" THEN "True" ELSE "False"
    /\ reaped' = (proc = "exited")
    /\ pc' = "idle"
    /\ UNCHANGED << envVars, process, proc, ctlStdin, stderrPiped,
                    errText, sig, inq, readVars, cmdVars, histVars, launched,
                    orphans, nstart, surfaced, stopVars, raised >>

\* send_command returned True
TrueRet(c) ==
    [id |-> c, outcome |-> "True", line |-> <<>>, response |-> <<>>,
     success |-> TRUE, from |-> 0]

\* subprocess.run(f'echo "{command}" | {executable}', shell=True, timeout=10):
\* a shell pipeline that launches another instance of the executable and
\* feeds it the command.  run() returns whatever the exit status, or raises
\* TimeoutExpired after killing the shell, which leaves the instance running;
\* an instance that finds the lock held exits at once and cannot time out.
\* When the path does not exist the shell fails at once and launches nothing.
ShellRun(timesOut) ==
    /\ timesOut => (exists /\ ~LockHeldElsewhere /\ proc # "running")
    /\ launched' = IF exists THEN launched + 1 ELSE launched
    /\ orphans' = IF timesOut THEN orphans + 1 ELSE orphans

\* send_command: self.process is not consulted; returns True unless run() raises.
TISend ==
    /\ script = "ti" /\ pc = "idle" /\ ncmd < MaxCmds
    /\ ncmd' = ncmd + 1
    /\ openAtSend' = SessionOpen
    /\ answered' = FALSE
    /\ written' = 1
    /\ \E text \in Commands, timesOut \in BOOLEAN :
          /\ ShellRun(timesOut)
          /\ raised' = timesOut
          /\ ret' = IF timesOut THEN NoRet ELSE TrueRet(ncmd + 1)
          /\ RecordSend(text)
    /\ ForgetStop
    /\ surfaced' = FALSE
    /\ UNCHANGED << envVars, pc, process, procVars, readVars, cur,
                    nstart, startRet, nstop >>

\* stop, up to self.process.wait(): nothing without a handle; otherwise
\* hide() (an exception of it propagates), stdin.close().
TIStopBegin ==
    /\ script = "ti" /\ pc = "idle" /\ nstop < MaxStops
    /\ nstop' = nstop + 1
    /\ IF process = "None"
       THEN /\ stopLog' = << "no process" >>
            /\ raised' = FALSE
            /\ UNCHANGED << pc, ctlStdin, launched, orphans >>
       ELSE \E timesOut \in BOOLEAN :
            /\ ShellRun(timesOut)
            /\ raised' = timesOut
            /\ IF timesOut
               THEN /\ stopLog' = << "hide raised" >>
                    /\ UNCHANGED << pc, ctlStdin >>
               ELSE /\ stopLog' = << "hide", "close", "wait" >>
                    /\ ctlStdin' = "closed"
                    /\ pc' = "tiStopWait"
    /\ UNCHANGED << envVars, process, proc, reaped, stderrPiped,
                    errText, sig, inq, readVars, ncmd, cur, nstart, startRet >>
    /\ ForgetSend
    /\ surfaced' = FALSE

\* self.process.wait() returns: the child exited.  Then self.process = None.
TIStopWaitDone ==
    /\ script = "ti" /\ pc = "tiStopWait" /\ proc = "exited"
    /\ reaped' = TRUE
    /\ stopLog' = Append(stopLog, "exited")
    /\ process' = "None"
    /\ pc' = "idle"
    /\ UNCHANGED << envVars, proc, ctlStdin, stderrPiped, errText,
                    sig, inq, readVars, cmdVars, histVars, launched, orphans,
                    startVars, nstop, raised >>

TINext ==
    \/ TIInit
    \/ TIStartSpawn
    \/ TIStartCheck
    \/ TISend
    \/ TIStopBegin
    \/ TIStopWaitDone

\* ------------------------------------------ main of Scripts/quick_test.py
\* the six entries of tests
QTTests == 6

\* if not executable.exists(): return 1
QTNotFound == ~exists

\* main, up to the test loop: return 1 when the executable is missing,
\* otherwise Popen with all three streams piped and sleep.  A failing Popen
\* is caught by except Exception, whose handler reads the still unbound
\* app_process and raises.
QTMainStart ==
    /\ script = "quick" /\ pc = "new"
    /\ IF QTNotFound
       THEN /\ mainRet' = "1"
            /\ pc' = "done"
            /\ UNCHANGED << process, procVars, readVars, launched, orphans,
                            raised >>
       ELSE \E popenOK \in BOOLEAN :
            IF popenOK
            THEN /\ Spawn(TRUE)
                 /\ process' = "Popen"
                 /\ pc' = "qtTests"
                 /\ UNCHANGED << mainRet, raised >>
            ELSE /\ raised' = TRUE
                 /\ pc' = "done"
                 /\ UNCHANGED << mainRet, process, procVars, readVars,
                                 launched, orphans >>
    /\ UNCHANGED << scriptVars, tsiVars, otherAlive, cmdVars, histVars, startVars,
                    stopVars >>

\* run_command: write and flush the line; an exception is caught and False
\* returned.  The reply is not read.
RunCommand(c, text) ==
    IF WriteFails
    THEN inq' = inq
    ELSE inq' = Append(inq, [id |-> c, text |-> CommandLine(text)])

\* one round of the loop over tests
QTTest ==
    /\ script = "quick" /\ pc = "qtTests" /\ ncmd < QTTests
    /\ ncmd' = ncmd + 1
    /\ \E text \in Commands : RunCommand(ncmd + 1, text)
    /\ UNCHANGED << scriptVars, tsiVars, otherAlive, mainRet, pc, process, proc, reaped, ctlStdin,
                    stderrPiped, errText, sig, readVars, cur, ret,
                    written, histVars, launched, orphans, startVars,
                    stopVars, raised >>

\* clean shutdown: run_command("hide"), stdin.close(), then wait(timeout=3)
QTShutdown ==
    /\ script = "quick" /\ pc = "qtTests" /\ ncmd = QTTests
    /\ RunCommand(0, "hide")
    /\ ctlStdin' = "closed"
    /\ pc' = "qtWait3"
    /\ UNCHANGED << scriptVars, tsiVars, otherAlive, mainRet, process, proc, reaped, stderrPiped, errText, sig, readVars, cmdVars, histVars,
                    launched, orphans, startVars, stopVars, raised >>

\* wait(timeout=3) returns: the child exited; main returns 0.
QTWaitDone ==
    /\ script = "quick" /\ pc = "qtWait3" /\ proc = "exited"
    /\ reaped' = TRUE
    /\ mainRet' = "0"
    /\ pc' = "done"
    /\ UNCHANGED << scriptVars, tsiVars, otherAlive, process, proc, ctlStdin, stderrPiped, errText, sig, inq, readVars, cmdVars,
                    histVars, launched, orphans, startVars, stopVars, raised >>

\* wait(timeout=3) raises TimeoutExpired: kill(), then wait()
QTWaitTimeout ==
    /\ script = "quick" /\ pc = "qtWait3" /\ proc = "running"
    /\ SendSignal("KILL")
    /\ pc' = "qtKillWait"
    /\ UNCHANGED << scriptVars, tsiVars, otherAlive, mainRet, process, proc, ctlStdin, stderrPiped, errText, inq, readVars, cmdVars, histVars,
                    launched, orphans, startVars, stopVars, raised >>

\* app_process.wait() after kill() returns; main returns 0.
QTKillWaitDone ==
    /\ script = "quick" /\ pc = "qtKillWait" /\ proc = "exited"
    /\ reaped' = TRUE
    /\ mainRet' = "0"
    /\ pc' = "done"
    /\ UNCHANGED << scriptVars, tsiVars, otherAlive, process, proc, ctlStdin, stderrPiped, errText, sig, inq, readVars, cmdVars,
                    histVars, launched, orphans, startVars, stopVars, raised >>

\* a statement of the try block raises an Exception other than
\* TimeoutExpired while the tests run (a print to a closed stdout, say):
\* the handler kills the child if poll() is None and returns 1.
QTException ==
    /\ script = "quick" /\ pc = "qtTests"
    /\ SendSignal("KILL")
    /\ mainRet' = "1"
    /\ pc' = "done"
    /\ UNCHANGED << scriptVars, tsiVars, otherAlive, process, proc, ctlStdin,
                    stderrPiped, errText, inq, readVars, cmdVars, histVars,
                    launched, orphans, startVars, stopVars, raised >>

QTNext ==
    \/ QTMainStart
    \/ QTTest
    \/ QTException
    \/ QTShutdown
    \/ QTWaitDone
    \/ QTWaitTimeout
    \/ QTKillWaitDone

\* ------------------------------------ Scripts/simple_integration.py
\* subprocess.Popen(f'echo "..." | {executable}', shell=True): a shell
\* pipeline started in the background, its handle dropped.  The shell
\* launches an instance of the executable when the path exists; nothing waits
\* for it.
ShellPopen ==
    /\ launched' = IF exists THEN launched + 1 ELSE launched
    /\ orphans' = IF exists THEN orphans + 1 ELSE orphans

\* show_shape(shape, size)
SIShowShape ==
    /\ script = "simple" /\ ncmd < MaxCmds
    /\ ncmd' = ncmd + 1
    /\ ShellPopen
    /\ pc' = "idle"
    /\ UNCHANGED << envVars, process, procVars, readVars, cur, ret, written,
                    histVars, startVars, stopVars, raised >>

\* hide_all()
SIHideAll ==
    /\ script = "simple" /\ ncmd < MaxCmds
    /\ ncmd' = ncmd + 1
    /\ ShellPopen
    /\ pc' = "idle"
    /\ UNCHANGED << envVars, process, procVars, readVars, cur, ret, written,
                    histVars, startVars, stopVars, raised >>

SINext ==
    \/ SIShowShape
    \/ SIHideAll

\* -------------------------------------------- test_single_instance.py
\* subprocess.run([executable, "--version" or "--help"], capture_output=True,
\* timeout=5): a one-shot instance.  It exits at once with a non-zero code
\* when a live instance holds the lock; otherwise it runs normally: it exits
\* with zero, or is still running after 5 s, and then run() kills it, waits
\* for it and raises TimeoutExpired.
ProbeOutcomes ==
    IF proc = "running" \/ LockHeldElsewhere
    THEN {"1"}
    ELSE {"0", "timeout"}

\* if not os.path.exists(executable_path): return False
TSINotFound == ~exists

\* test_single_instance up to the first probe: False when the executable is
\* missing, otherwise Popen of the first instance with its three streams
\* piped and a sleep of 1 s.  A failing Popen propagates.
TSIStart ==
    /\ script = "tsi" /\ pc = "new"
    /\ IF TSINotFound
       THEN /\ testRet' = "False"
            /\ pc' = "done"
            /\ UNCHANGED << process, procVars, readVars, launched, orphans,
                            raised >>
       ELSE \E popenOK \in BOOLEAN :
            IF popenOK
            THEN /\ Spawn(TRUE)
                 /\ process' = "Popen"
                 /\ pc' = "tsiProbe2"
                 /\ UNCHANGED << testRet, raised >>
            ELSE /\ raised' = TRUE
                 /\ pc' = "done"
                 /\ UNCHANGED << testRet, process, procVars, readVars,
                                 launched, orphans >>
    /\ UNCHANGED << scriptVars, mainRet, otherAlive, codes, cmdVars, histVars,
                    startVars, stopVars >>

\* the second probe (--version) and the third (--help): the return code is
\* kept; a TimeoutExpired of run() propagates out of the test.
TSIProbe ==
    /\ script = "tsi" /\ pc \in {"tsiProbe2", "tsiProbe3"} /\ ~Contended
    /\ launched' = launched + 1
    /\ \E rc \in ProbeOutcomes :
          IF rc = "timeout"
          THEN /\ raised' = TRUE
               /\ pc' = "done"
               /\ UNCHANGED << codes, sig, reaped >>
          ELSE /\ codes' = Append(codes, rc)
               /\ IF pc = "tsiProbe2"
                  THEN /\ pc' = "tsiProbe3"
                       /\ UNCHANGED << sig, reaped >>
                  ELSE \* proc1.terminate(), then proc1.wait(timeout=5)
                       /\ SendSignal("TERM")
                       /\ pc' = "tsiWait5"
               /\ UNCHANGED raised
    /\ UNCHANGED << scriptVars, mainRet, otherAlive, testRet, process, proc,
                    ctlStdin, stderrPiped, errText, inq, readVars, cmdVars,
                    histVars, orphans, startVars, stopVars >>

\* proc1.wait(timeout=5) returns: the first instance exited.
TSIWaitDone ==
    /\ script = "tsi" /\ pc = "tsiWait5" /\ proc = "exited"
    /\ reaped' = TRUE
    /\ pc' = "tsiProbe4"
    /\ UNCHANGED << envVars, process, proc, ctlStdin, stderrPiped, errText,
                    sig, inq, readVars, cmdVars, histVars, launched, orphans,
                    startVars, stopVars, raised >>

\* a timeout handler that kills and goes on to the final probe without the
\* wait() after the kill
TSIWaitTimeoutNoWait ==
    /\ script = "tsi" /\ pc = "tsiWait5" /\ proc = "running"
    /\ SendSignal("KILL")
    /\ pc' = "tsiProbe4"
    /\ UNCHANGED << envVars, process, proc, ctlStdin, stderrPiped, errText,
                    inq, readVars, cmdVars, histVars, launched, orphans,
                    startVars, stopVars, raised >>

\* proc1.wait(timeout=5) raises TimeoutExpired: proc1.kill(), then proc1.wait()
TSIWaitTimeout ==
    /\ script = "tsi" /\ pc = "tsiWait5" /\ proc = "running"
    /\ SendSignal("KILL")
    /\ pc' = "tsiKillWait"
    /\ UNCHANGED << envVars, process, proc, ctlStdin, stderrPiped, errText,
                    inq, readVars, cmdVars, histVars, launched, orphans,
                    startVars, stopVars, raised >>

\* proc1.wait() after kill() returns.
TSIKillWaitDone ==
    /\ script = "tsi" /\ pc = "tsiKillWait" /\ proc = "exited"
    /\ reaped' = TRUE
    /\ pc' = "tsiProbe4"
    /\ UNCHANGED << envVars, process, proc, ctlStdin, stderrPiped, errText,
                    sig, inq, readVars, cmdVars, histVars, launched, orphans,
                    startVars, stopVars, raised >>

\* if result.returncode == 0 and result2.returncode == 0 and
\*    result3.returncode == 0: return True, else return False
TSIVerdict(rcs) ==
    IF \A i \in DOMAIN rcs : rcs[i] = "0" THEN "True" ELSE "False"

\* the probe after the first instance is gone, and the verdict
TSIFinalProbe ==
    /\ script = "tsi" /\ pc = "tsiProbe4"
    /\ launched' = launched + 1
    /\ pc' = "done"
    /\ \E rc \in ProbeOutcomes :
          IF rc = "timeout"
          THEN /\ raised' = TRUE
               /\ UNCHANGED << codes, testRet >>
          ELSE /\ codes' = Append(codes, rc)
               /\ testRet' = TSIVerdict(Append(codes, rc))
               /\ UNCHANGED raised
    /\ UNCHANGED << scriptVars, mainRet, otherAlive, process, procVars,
                    readVars, cmdVars, histVars, orphans, startVars,
                    stopVars >>

TSINext ==
    \/ TSIStart
    \/ TSIProbe
    \/ TSIWaitDone
    \/ TSIWaitTimeout
    \/ TSIKillWaitDone
    \/ TSIFinalProbe

\* ------------------------------------------------------- main of demo.py
\* The four demo modes as programs: the send_command calls of a mode in
\* order.  An instruction holds the command text, its kind (a show, a hide
\* or another command), whether the mode expects it to succeed, and where
\* the mode goes on when the call returns without success: fail instructions
\* further (1 is the next one), or, with fail = 0, return False.
Instr(text, kind, expect, fail) ==
    [text |-> text, kind |-> kind, expect |-> expect, fail |-> fail]
Show(text) == Instr(text, "show", TRUE, 1)
Hide == Instr("hide", "hide", TRUE, 1)

\* a health check whose result is ignored
HealthCheckIgnored == Instr("health", "other", TRUE, 1)

\* demo_health_check: send health; if not success: return False
HealthCheck == Instr("health", "other", TRUE, 0)

\* the leading MaxList elements of a list
Take(list) ==
    SubSeq(list, 1, IF Len(list) < MaxList THEN Len(list) ELSE MaxList)

\* for text in texts: send_command(text); send_command("hide")
RECURSIVE ShowHideEach(_)
ShowHideEach(texts) ==
    IF texts = <<>> THEN <<>>
    ELSE << Show(Head(texts)), Hide >> \o ShowHideEach(Tail(texts))

\* for text in texts: send_command(text)
ShowEach(texts) == [i \in 1..Len(texts) |-> Show(texts[i])]

\* f"show {shape}" for shape in self.shapes
ShapeTexts == << "show circle", "show ring", "show orb" >>
\* f"show circle {size}" for size in self.sizes
SizeTexts ==
    << "show circle 20", "show circle 35", "show circle 50", "show circle 75",
       "show circle 100" >>
\* f"show {shape} 50" for shape in self.shapes
QuickTexts == << "show circle 50", "show ring 50", "show orb 50" >>
\* f"show {shape} {size}" for shape, size in shapes_and_sizes
AnimationTexts ==
    << "show circle 30", "show ring 50", "show orb 70", "show circle 90" >>
\* invalid_commands
InvalidCommands ==
    << Instr("invalid_command", "other", FALSE, 1),
       Instr("show invalid_shape", "show", FALSE, 1),
       Instr("show circle abc", "show", FALSE, 1),
       Instr("show circle 500", "show", FALSE, 1),
       Instr("show circle 0", "show", FALSE, 1) >>

DemoBasicShapes == ShowHideEach(Take(ShapeTexts))
DemoSizeVariations == ShowEach(Take(SizeTexts)) \o << Hide >>
DemoPositioningModes ==
    << Show("show circle 60"), Hide, Show("show center 60"), Hide >>
\* the first show returns from the demo when it fails, past the hide
DemoLiveUpdates ==
    << Instr("show circle 40", "show", TRUE, 5), Show("show circle 80"),
       Show("show ring 80"), Show("show orb 120"), Hide >>
DemoAnimationSystem == ShowHideEach(Take(AnimationTexts))
DemoErrorHandling == Take(InvalidCommands)

RunFullDemo ==
    << HealthCheck >> \o DemoBasicShapes \o DemoSizeVariations
        \o DemoPositioningModes \o DemoLiveUpdates \o DemoAnimationSystem
        \o DemoErrorHandling \o << Hide >>
\* a quick demo that ends on its last show
RunQuickDemoNoHide == << HealthCheck, Show(QuickTexts[1]) >>
RunQuickDemo == << HealthCheck >> \o ShowHideEach(Take(QuickTexts))
RunShapesDemo == << HealthCheck >> \o DemoBasicShapes \o DemoSizeVariations
RunPositionsDemo == << HealthCheck >> \o DemoPositioningModes

Modes == {"full", "quick", "shapes", "positions"}

\* run_demo: the program of args.mode
Program ==
    CASE mode = "full" -> RunFullDemo
      [] mode = "quick" -> RunQuickDemo
      [] mode = "shapes" -> RunShapesDemo
      [] OTHER -> RunPositionsDemo

\* main up to the sleep of start_process: exit code 1 when no executable is
\* found or the constructor raises FileNotFoundError, otherwise the
\* constructor and start_process.
MainBegin ==
    /\ script = "main" /\ pc = "new"
    /\ IF DemoNotFound
       THEN /\ mainRet' = "1"
            /\ pc' = "done"
            /\ UNCHANGED << process, procVars, readVars, cmdVars, histVars,
                            launched, orphans, startVars, stopVars, raised >>
       ELSE /\ StartProcess
            /\ UNCHANGED mainRet
    /\ UNCHANGED << scriptVars, otherAlive, tsiVars >>

\* if not demo.start_process(): sys.exit(1)
MainStartFailed ==
    /\ script = "main" /\ pc = "idle" /\ startRet = "False"
    /\ mainRet' = "1"
    /\ pc' = "done"
    /\ UNCHANGED << scriptVars, otherAlive, tsiVars, process, procVars,
                    readVars, cmdVars, histVars, launched, orphans, startVars,
                    stopVars, raised >>

\* run_*_demo returns v, and the finally of run_demo calls stop_process
ReturnMode(v) ==
    /\ modeRet' = v
    /\ StopProcess
    /\ UNCHANGED << ip, lastSH >>

\* The mode takes the result of the call it made last and goes on: to its
\* next send_command call, or to its return.
MainStep ==
    /\ script = "main" /\ pc = "idle" /\ startRet = "True"
    /\ modeRet = "none"
    /\ LET ok == ret.success
           next == IF ip = 0 THEN 1
                   ELSE IF ok THEN ip + 1
                   ELSE IF Program[ip].fail = 0 THEN 0
                   ELSE ip + Program[ip].fail
       IN /\ health' = IF ip = 1 THEN (IF ok THEN "ok" ELSE "failed")
                       ELSE health
          /\ cmdFailed' = (cmdFailed \/ (ip > 1 /\ Program[ip].expect /\ ~ok))
          /\ IF ip > 0 /\ next = 0
             THEN ReturnMode("False")
             ELSE IF next > Len(Program)
             THEN ReturnMode("True")
             ELSE /\ SendCommand(Program[next].text)
                  /\ ip' = next
                  /\ lastSH' = IF /\ ~DemoNotRunning /\ ~WriteFails
                                  /\ Program[next].kind # "other"
                               THEN Program[next].kind
                               ELSE lastSH
                  /\ UNCHANGED modeRet
    /\ UNCHANGED << script, exists, mode, interrupted, mainRet, otherAlive,
                    tsiVars >>

\* The user interrupts the run between two commands: asyncio.run cancels
\* the task, the mode is left through its finally clauses and the finally of
\* run_demo calls stop_process.
MainInterrupt ==
    /\ script = "main" /\ pc = "idle" /\ startRet = "True"
    /\ modeRet = "none" /\ ip > 0
    /\ interrupted' = TRUE
    /\ modeRet' = "cancelled"
    /\ StopProcess
    /\ UNCHANGED << script, exists, mode, ip, lastSH, cmdFailed, health,
                    mainRet, otherAlive, tsiVars >>

\* sys.exit(0 if success else 1); after an interrupt the handler of main
\* calls stop_process again, which finds no handle, and exits with 1.
MainExit ==
    /\ script = "main" /\ pc = "idle" /\ modeRet # "none"
    /\ mainRet' = IF modeRet = "True" THEN "0" ELSE "1"
    /\ pc' = "done"
    /\ UNCHANGED << scriptVars, otherAlive, tsiVars, process, procVars,
                    readVars, cmdVars, histVars, launched, orphans, startVars,
                    stopVars, raised >>

MainNext ==
    \/ MainBegin
    \/ MainStartFailed
    \/ MainStep
    \/ MainInterrupt
    \/ MainExit

ProcNext ==
    \/ ProcReply
    \/ ProcSkip
    \/ ProcExit
    \/ OtherExit
    \/ OrphanExit

Next == DemoNext \/ TINext \/ QTNext \/ SINext \/ TSINext \/ ProcNext

Spec == Init /\ [][Next]_vars

\* main of demo.py with one of its four modes
MainInit ==
    /\ script = "main"
    /\ mode \in Modes
    /\ InitState

\* main, the steps of the IndicatorDemo calls it makes, and the child
MainSpecNext ==
    \/ MainNext
    \/ DemoStartCheck
    \/ ReaderReturns
    \/ DemoSendTimeout
    \/ DemoStopWaitDone
    \/ DemoStopTerminate
    \/ DemoStopWait2Done
    \/ DemoStopKill
    \/ ProcReply
    \/ ProcSkip
    \/ ProcExit
    \/ OtherExit

MainSpec == MainInit /\ [][MainSpecNext]_vars

\* ------------------------------------------------------------------ claims
\* The reader threads blocked in readline() on the child's stdout
Readers == (IF holder = 0 THEN {} ELSE {holder}) \cup waiters

\* stop_process has returned from a call that found a handle
DemoStopReturned ==
    /\ script = "demo" /\ pc = "idle"
    /\ stopLog # <<>> /\ stopLog # << "no process" >>

\* C1: whenever IndicatorDemo.stop_process has returned from a call that
\* found a process handle, the child has exited and its exit was waited for.
C1_StopReturnsAfterExit ==
    DemoStopReturned => (proc = "exited" /\ reaped)

\* C2: in IndicatorDemo.stop_process terminate is issued only after stdin was
\* closed and the 5 s wait expired, and kill only after terminate was issued
\* and the 2 s wait expired.
C2_LadderOrdered ==
    script = "demo" =>
      /\ \A i \in DOMAIN stopLog :
            stopLog[i] = "terminate" =>
               \E j \in 1 .. i - 1 :
                  /\ stopLog[j] = "timeout5"
                  /\ \E k \in 1 .. j - 1 : stopLog[k] = "close"
      /\ \A i \in DOMAIN stopLog :
            stopLog[i] = "kill" =>
               \E j \in 1 .. i - 1 :
                  /\ stopLog[j] = "timeout2"
                  /\ \E k \in 1 .. j - 1 : stopLog[k] = "terminate"

\* C3: IndicatorDemo.stop_process never raises, whatever the state of the
\* child, and a stop that directly follows a stop on the same controller
\* writes nothing, closes nothing, signals nothing and returns at once.
C3_StopNeverRaisesDoubleStopNoOp ==
    /\ []((script = "demo" /\ stopLog # <<>>) => ~raised)
    /\ [][ (script = "demo" /\ nstop' = nstop + 1 /\ stopLog # <<>>) =>
              /\ stopLog' = << "no process" >>
              /\ pc' = "idle"
              /\ ~raised'
              /\ UNCHANGED << process, procVars, readVars, launched >> ]_vars

\* C3 witness: a second stop right after a stop that had a child to stop
C3_Witness ==
    /\ script = "demo" /\ nstop = 2 /\ launched > 0
    /\ stopLog = << "no process" >> /\ process = "None"

\* C4: when the child writes its reply to a command while the send_command
\* call for it is still waiting, the call returns that reply.
C4_ReplyInTimeIsReturned ==
    (script = "demo" /\ pc = "idle" /\ ret.id # 0 /\ answered) =>
       (ret.outcome = "response" /\ ret.from = ret.id)

\* C5: at most one read of the child's stdout is outstanding, and a call in
\* progress is the latest call and has written its one line.
C5_NoPipelining ==
    script = "demo" =>
       /\ Cardinality(Readers) <= 1
       /\ pc = "waiting" => (cur = ncmd /\ written = 1)

\* C6: when the child, still running, produced no output for a command that
\* was written, send_command returned the timeout failure; and a call that
\* read or timed out wrote its line exactly once.
C6_SilentChildTimesOut ==
    (script = "demo" /\ pc = "idle" /\ ret.id # 0) =>
       /\ (written = 1 /\ ~answered /\ proc = "running") =>
             (ret.outcome = "timeout" /\ ~ret.success)
       /\ ret.outcome \in {"timeout", "response"} => written = 1

\* C7: a send_command on a session that is not open reports NotRunning and
\* writes nothing, for IndicatorDemo and for TranscriptionIndicator.
C7_SendToClosedIsNotRunning ==
    (script \in {"demo", "ti"} /\ pc = "idle" /\ ret.id # 0 /\ ~openAtSend) =>
       (ret.outcome = "NotRunning" /\ written = 0)

\* The line holds "OK:" right after its leading whitespace (written without
\* the operators of the model's send_command).
OKAfterWhitespace(l) ==
    \E i \in 1 .. Len(l) :
       /\ \A j \in 1 .. i - 1 : l[j] \in Whitespace
       /\ i + 2 <= Len(l)
       /\ l[i] = "O" /\ l[i + 1] = "K" /\ l[i + 2] = ":"

\* C8 as stated: success is True exactly when the line read starts with "OK:".
C8_LiteralPrefixOfLineRead ==
    (script = "demo" /\ ret.id # 0) =>
       (ret.success <=> (ret.outcome = "response" /\ StartsWith(ret.line, OKPrefix)))

\* C8 as amended: IndicatorDemo.send_command returns success True exactly when
\* the line read, with its leading and trailing whitespace removed, starts
\* with "OK:"; every other line, end-of-file included, gives False, and
\* nothing is raised.
C8_PrefixOfStrippedLine ==
    (script = "demo" /\ ret.id # 0) =>
       /\ ret.success <=> (ret.outcome = "response" /\ OKAfterWhitespace(ret.line))
       /\ ~raised

\* C8 witness: a reply with a leading blank was classified as a success
C8_Witness ==
    /\ script = "demo" /\ ret.outcome = "response"
    /\ ret.line = << SP, "O", "K", ":", NL >> /\ ret.success

\* C9: with the executable missing nothing is ever launched: the constructor
\* of IndicatorDemo raises, TranscriptionIndicator.start returns False, and
\* main of quick_test returns 1.
C9_NotFoundLaunchesNothing ==
    ~exists =>
       /\ launched = 0 /\ process = "None" /\ proc = "none"
       /\ script = "demo" => (pc \in {"new", "ctorRaised"} /\ (pc = "ctorRaised" => raised))
       /\ (script = "ti" /\ nstart > 0) => startRet = "False"
       /\ (script = "quick" /\ pc # "new") => (pc = "done" /\ mainRet = "1")

\* C9 witness: TranscriptionIndicator.start was called with the executable missing
C9_Witness == ~exists /\ script = "ti" /\ nstart > 0 /\ startRet = "False"

\* C10: at the readiness check start reports success exactly when the child
\* is alive; on success the session holds a live handle; on failure the
\* child's error text, if any, was surfaced and no live handle is held.
C10_StartReportsReadiness ==
    [][ (pc \in {"startSleep", "tiStartSleep"} /\ pc' = "idle") =>
           /\ (startRet' = "True") <=> (proc = "running")
           /\ startRet' = "True" => (process' = "Popen" /\ proc' = "running")
           /\ startRet' = "False" =>
                 /\ errText => surfaced'
                 /\ ~(process' = "Popen" /\ proc' = "running") ]_vars

\* C11: no operation of TranscriptionIndicator or of the simple_integration
\* driver launches an instance of the executable while an instance the same
\* controller launched earlier is still alive.
C11_OneLiveProcessPerController ==
    [][ (script \in {"ti", "simple"} /\ launched' > launched) =>
           (proc # "running" /\ orphans = 0) ]_vars

\* C12: on an open session, when "show <shape> <size>" is sent and then at
\* once "hide", and the child answers each of them in time with the OK: line
\* of its grammar, both calls return an OK:-classified response, the first the
\* reply to show and the second the reply to hide.
C12_ShowThenHideBothOK ==
    (script = "demo" /\ pc = "idle" /\ ret.id # 0 /\ openAtSend /\ conformed) =>
       /\ command = "show circle 30" =>
             (ret.outcome = "response" /\ ret.success /\ ret.from = ret.id)
       /\ (command = "hide" /\ prev.command = "show circle 30") =>
             /\ prev.ok
             /\ ret.outcome = "response" /\ ret.success /\ ret.from = ret.id

\* C13: on an open session, when "hide" is sent twice in a row and the child
\* answers each in time with the OK: line of its grammar, both calls return
\* an OK:-classified response, whatever was sent before the first one.
C13_HideTwiceBothOK ==
    (/\ script = "demo" /\ pc = "idle" /\ ret.id # 0 /\ openAtSend /\ conformed
     /\ command = "hide" /\ prev.command = "hide") =>
       /\ prev.ok
       /\ ret.outcome = "response" /\ ret.success /\ ret.from = ret.id

C15_StartStopRoundTrip ==
    /\ []((/\ script \in {"demo", "ti"} /\ pc = "idle" /\ ncmd = 0
           /\ startRet = "True" /\ stopLog # <<>>) =>
             (process = "None" /\ proc # "running" /\ ~raised))
    /\ [][ (/\ script \in {"demo", "ti"} /\ pc = "idle" /\ ncmd = 0
            /\ startRet = "True" /\ stopLog # <<>> /\ ncmd' = 1) =>
              (ret'.outcome = "NotRunning" /\ written' = 0) ]_vars

\* C16: in IndicatorDemo.stop_process a failure of the write or flush of
\* "hide" is ignored: stop still closes the child's stdin and then performs
\* the bounded wait for its exit.
C16_HideIsBestEffort ==
    script = "demo" =>
       \A i \in DOMAIN stopLog :
          stopLog[i] = "write failed" =>
             \E j \in i + 1 .. Len(stopLog) :
                /\ stopLog[j] = "close"
                /\ \E k \in j + 1 .. Len(stopLog) : stopLog[k] = "wait5"

\* C17: TranscriptionIndicator.stop waits only a bounded time for the child to
\* exit: whenever stop is waiting, stop itself can take its next step (the
\* wait returns or its bound expires and stop escalates), also while the
\* child stays alive.
C17_StopWaitIsBounded ==
    (script = "ti" /\ pc = "tiStopWait") => ENABLED TINext

\* C18: when the second and the third probe of test_single_instance exited
\* with a non-zero code and the probe made after the first instance was gone
\* exited with zero, test_single_instance reports success.
C18_ContentionExitIsExpected ==
    (/\ script = "tsi" /\ pc = "done" /\ Len(codes) = 3
     /\ codes[1] # "0" /\ codes[2] # "0" /\ codes[3] = "0") =>
       testRet = "True"

\* C19: TranscriptionIndicator.send_command raises nothing and returns True
\* only when the command was delivered: the executable exists and the session
\* was open when the command was sent.
C19_SendReturnsDelivery ==
    (script = "ti" /\ command # "") =>
       /\ ~raised
       /\ ret.success => (exists /\ openAtSend)

\* C20: IndicatorDemo.send_command validates nothing: the line it writes is
\* the command text as given followed by one newline; a call that wrote
\* nothing found no handle or a stream it could not write to; and for a
\* command outside the grammar the result is decided by the line read alone.
C20_ForwardsTextUnchanged ==
    script = "demo" =>
       /\ (pc = "waiting" /\ inq # <<>> /\ inq[Len(inq)].id = cur) =>
             inq[Len(inq)].text = << command, NL >>
       /\ pc = "waiting" => written = 1
       /\ (pc = "idle" /\ ret.id # 0 /\ written = 0) =>
             (process = "None" \/ ctlStdin # "open" \/ proc # "running")
       /\ (pc = "idle" /\ ret.outcome = "response" /\ command \notin ValidCommands) =>
             (ret.success <=> OKAfterWhitespace(ret.line))

\* C20 witness: an out-of-range show was written as given and reported as a
\* failure on the ERROR: line the child answered it with
C20_Witness ==
    /\ script = "demo" /\ pc = "idle" /\ command = "show circle 500"
    /\ written = 1 /\ ret.outcome = "response" /\ ret.from = ret.id
    /\ ret.line = << "E", "R", "R", "O", "R", ":", NL >> /\ ~ret.success

\* C21: in quick_test, when the next command of the sequence (or the hide of
\* the shutdown) is written, every response line the process produced for
\* the commands before it has been read from stdout.
C21_ResponseReadBeforeNextCommand ==
    [][ (/\ script = "quick" /\ pc = "qtTests" /\ ncmd > 0
         /\ (ncmd' = ncmd + 1 \/ pc' = "qtWait3")) =>
           pipe = <<>> ]_vars

\* C24: in test_single_instance the final probe is launched only after the
\* first instance has exited and been waited for (terminate, wait of up to
\* 5 s, kill on timeout, wait): both when the probe is about to be launched
\* and once its return code is recorded, the first instance is gone.
C24_FinalProbeAfterFirstExit ==
    script = "tsi" =>
      /\ (pc = "tsiProbe4" => (proc = "exited" /\ reaped))
      /\ (Len(codes) = 3 => (proc = "exited" /\ reaped))
      /\ (pc = "tsiKillWait" => (proc = "exited" \/ "KILL" \in sig))

C24_Witness ==
    script = "tsi" /\ pc = "done" /\ codes = << "1", "1", "0" >> /\ reaped

\* C27: whenever test_single_instance ends after having spawned the first
\* instance, by a verdict or by a probe's TimeoutExpired, the first instance
\* has exited and been waited for.
C27_FirstInstanceNeverLeftBehind ==
    (script = "tsi" /\ pc = "done" /\ process = "Popen") =>
        (proc = "exited" /\ reaped)

\* C29: once TranscriptionIndicator.stop, called with a process handle, has
\* ended (by returning or by the exception of its hide), stdin is closed,
\* the process has been waited for and the handle is None.
C29_StopAlwaysReleasesSession ==
    (/\ script = "ti" /\ pc = "idle"
     /\ stopLog # <<>> /\ stopLog # << "no process" >>) =>
        (ctlStdin = "closed" /\ reaped /\ process = "None")

\* C25: IndicatorDemo.send_command never raises and never touches the
\* handle: during and after a call the handle is the one the call found;
\* a call that found a handle but could not write returns the failure
\* tuple, and a call whose readline returned end-of-file returns ("", False).
C25_SendNeverRaises ==
    script = "demo" =>
      /\ (pc = "waiting" \/ ret.id # 0) =>
            (~raised /\ (openAtSend => process = "Popen"))
      /\ (pc = "idle" /\ ret.id # 0 /\ ret.outcome # "NotRunning"
            /\ written = 0) =>
            (ret.outcome = "failed" /\ ~ret.success /\ process = "Popen")
      /\ (ret.outcome = "response" /\ ret.line = EOFLine) =>
            (ret.response = <<>> /\ ~ret.success /\ process = "Popen")
      /\ (ret.outcome = "failed") => ~ret.success

C25_Witness ==
    /\ script = "demo" /\ pc = "idle" /\ proc = "exited" /\ ~raised
    /\ ret.outcome = "failed" /\ written = 0 /\ process = "Popen"
    /\ openAtSend

\* C28: when quick_test.main has returned after spawning the app process,
\* the process is no longer alive; and a return of 0 means the run went
\* through the shutdown (stdin closed, process waited for).
C28_MainLeavesNoProcess ==
    (script = "quick" /\ pc = "done" /\ process = "Popen"
        /\ mainRet # "none") =>
      /\ proc = "exited"
      /\ (mainRet = "0" => (ctlStdin = "closed" /\ reaped))

\* C22: every demo mode sends health as its first command, goes on to a
\* second command only after a health check that succeeded, and after one
\* that did not succeed returns False with health the only command sent and
\* no show or hide written.
C22_HealthFirst ==
    script = "main" =>
      /\ (ip = 1 /\ modeRet = "none") => (command = "health" /\ ncmd = 1)
      /\ ip >= 2 => health = "ok"
      /\ health = "failed" =>
            (modeRet = "False" /\ ncmd = 1 /\ ip = 1 /\ lastSH = "none")
      /\ modeRet = "False" => health = "failed"

C22_Witness ==
    /\ script = "main" /\ health = "failed" /\ modeRet = "False"
    /\ proc = "running" /\ pc = "stopWait5"

\* C23: when main of demo.py has exited after a start_process that returned
\* True, stop_process has been executed and the process main started is
\* not alive.
C23_MainStopsWhatItStarted ==
    (script = "main" /\ pc = "done" /\ startRet = "True") =>
        (nstop >= 1 /\ process = "None" /\ proc = "exited")

C30_TrueOnlyOnSuccess ==
    (script = "main" /\ mode = "full" /\ modeRet \in {"True", "False"}) =>
        (modeRet = "True" <=> (health = "ok" /\ ~cmdFailed))

====
